---- MODULE Spec2Model ----
(***************************************************************************)
(* The three batch ETL jobs of the hotel-booking warehouse:                *)
(*   etl_dims.py       dimension loader  (replace)                         *)
(*   etl_fact.py       fact loader       (append)                          *)
(*   etl_data_mart.py  data-mart builder (replace)                         *)
(*                                                                         *)
(* A DataFrame is a record [ok, cols, rows]: cols the set of column names, *)
(* rows a sequence of functions from cols to cell values.  None (the       *)
(* result of a failed extract_data) is the record with ok = FALSE.         *)
(* A cell value is a tagged record, so that astype(str), truthiness and    *)
(* key comparison are computed as pandas/Python compute them.  Text is a   *)
(* sequence of one-character strings.                                      *)
(*                                                                         *)
(* Columns that the jobs only carry through (reservation_datetime,         *)
(* check_in_date, check_out_date, status, hotel_id, booker_id,             *)
(* total_discount, date, floor, payment_datetime) are left out of the      *)
(* rows; voucher_code, total_room_price, name, amount stand for them.      *)
(* Entity ids are non-null keys; duplicate ids in a batch are allowed.     *)
(***************************************************************************)
EXTENDS Integers, Sequences, FiniteSets, TLC

VARIABLES
    source,   \* source database: table name -> DataFrame
    dwh,      \* warehouse: table name -> sequence of rows
    pc,       \* position of the running job ("idle" when none runs)
    job,      \* which job runs or ran last: "dims", "fact", "mart", "none"
    frames,   \* local DataFrames of the running job: variable name -> frame
    log,      \* console output of the current run: <<[msg, table]>>
    result,   \* how the last run ended: "running", "aborted", "crashed", "finished", "none"
    today,    \* the calendar date (pd.Timestamp.now().normalize())
    runs,     \* job runs still allowed in this behaviour
    edits     \* source-row deletions still allowed in this behaviour

vars == <<source, dwh, pc, job, frames, log, result, today, runs, edits>>

-----------------------------------------------------------------------------
(* Bounds *)

MaxRows == 2      \* rows per source table
MaxRuns == 2      \* job runs per behaviour
MaxDay == 1       \* the clock runs over 0..MaxDay
MaxChanges == 1   \* source rows deleted between extractions
MaxLen == 2       \* characters of a raw phone number
MaxApply == 2     \* successive applications of the phone normalisation

-----------------------------------------------------------------------------
(* Cell values *)

Null == [k |-> "null", n |-> 0, s |-> <<>>]
IntV(n) == [k |-> "int", n |-> n, s |-> <<>>]
FloatV(n) == [k |-> "float", n |-> n, s |-> <<>>]
StrV(s) == [k |-> "str", n |-> 0, s |-> s]
BoolV(b) == [k |-> "bool", n |-> IF b THEN 1 ELSE 0, s |-> <<>>]
DateV(d) == [k |-> "date", n |-> d, s |-> <<>>]

IsNumber(v) == v.k \in {"int", "float"}

\* Python truthiness of a cell (the `x and ...` of the phone lambda)
Truthy(v) ==
    CASE v.k = "null" -> FALSE
      [] v.k = "str" -> v.s # <<>>
      [] v.k \in {"int", "float", "bool"} -> v.n # 0
      [] OTHER -> TRUE

\* Equality of join keys and of isin: numbers compare by value (1 == 1.0),
\* a null key matches a null key, everything else by identity.
KeyEq(a, b) == IF IsNumber(a) /\ IsNumber(b) THEN a.n = b.n ELSE a = b

Digits == <<"0", "1", "2", "3", "4", "5", "6", "7", "8", "9">>

RECURSIVE NatStr(_)
NatStr(n) == IF n < 10 THEN <<Digits[n + 1]>>
             ELSE NatStr(n \div 10) \o <<Digits[(n % 10) + 1]>>

\* str(x), the element-wise conversion of Series.astype(str)
ToStr(v) ==
    CASE v.k = "str" -> v.s
      [] v.k = "int" -> NatStr(v.n)
      [] v.k = "float" -> NatStr(v.n) \o <<".", "0">>
      [] v.k = "null" -> <<"N", "o", "n", "e">>
      [] v.k = "bool" -> IF v.n = 1 THEN <<"T", "r", "u", "e">>
                         ELSE <<"F", "a", "l", "s", "e">>
      [] OTHER -> NatStr(v.n)

\* float(x) of Series.astype(float) on whole numbers
ToFloat(v) == IF v.k = "int" THEN FloatV(v.n) ELSE v

-----------------------------------------------------------------------------
(* DataFrames *)

None == [ok |-> FALSE, cols |-> {}, rows |-> <<>>]
DataFrame(cols, rows) == [ok |-> TRUE, cols |-> cols, rows |-> rows]

Range(s) == {s[i] : i \in DOMAIN s}

RECURSIVE FlattenSeq(_)
FlattenSeq(ss) == IF ss = <<>> THEN <<>> ELSE Head(ss) \o FlattenSeq(Tail(ss))

RECURSIVE FilterSeq(_, _)
\* the rows s[i] with keep[i], in order (boolean-mask indexing)
FilterSeq(s, keep) ==
    IF s = <<>> THEN <<>>
    ELSE (IF Head(keep) THEN <<Head(s)>> ELSE <<>>) \o FilterSeq(Tail(s), Tail(keep))

\* df[column] = f(df[column]) element-wise
MapColumn(df, c, F(_)) ==
    DataFrame(df.cols, [i \in DOMAIN df.rows |-> [df.rows[i] EXCEPT ![c] = F(@)]])

\* df[column] = constant, adding the column when absent
SetColumn(df, c, v) ==
    DataFrame(df.cols \cup {c},
              [i \in DOMAIN df.rows |->
                  [x \in df.cols \cup {c} |-> IF x = c THEN v ELSE df.rows[i][x]]])

\* df[[c1, ..., cn]]; the caller checks that every column exists (KeyError)
Select(df, cs) ==
    DataFrame(Range(cs), [i \in DOMAIN df.rows |-> [x \in Range(cs) |-> df.rows[i][x]]])

CanSelect(df, cs) == Range(cs) \subseteq df.cols

\* df.rename(columns=m): m a function from old names to new names;
\* names that are not columns are ignored
NewName(m, c) == IF c \in DOMAIN m THEN m[c] ELSE c

Rename(df, m) ==
    LET newcols == {NewName(m, c) : c \in df.cols}
        Old(x) == CHOOSE c \in df.cols : NewName(m, c) = x
    IN DataFrame(newcols,
                 [i \in DOMAIN df.rows |-> [x \in newcols |-> df.rows[i][Old(x)]]])

\* df.columns = new, after df = df[old]: positional renaming
SetColumns(df, old, new) ==
    Rename(df, [c \in Range(old) |-> new[CHOOSE i \in DOMAIN old : old[i] = c]])

\* Series.isin
IsIn(v, values) == \E i \in DOMAIN values : KeyEq(v, values[i])

Column(df, c) == [i \in DOMAIN df.rows |-> df.rows[i][c]]

\* drop_duplicates with keep='last' instead of the default keep='first'
DropDuplicatesKeepLast(df, c) ==
    DataFrame(df.cols,
              FilterSeq(df.rows,
                        [i \in DOMAIN df.rows |->
                            ~ \E j \in (i + 1)..Len(df.rows) :
                                  KeyEq(df.rows[j][c], df.rows[i][c])]))

\* DataFrame.drop_duplicates(subset=c): keeps the first row of every key
DropDuplicates(df, c) ==
    DataFrame(df.cols,
              FilterSeq(df.rows,
                        [i \in DOMAIN df.rows |->
                            ~ \E j \in 1..(i - 1) : KeyEq(df.rows[j][c], df.rows[i][c])]))

\* pd.merge(left, right, left_on=lk, right_on=rk, how='left', suffixes=(ls, rs)).
\* Columns named alike on both sides get the suffixes; with lk = rk (on=) the
\* key column is shared.  Left order is kept; a left row with no match is
\* kept once with nulls in the right columns.
MergeLeft(left, right, lk, rk, ls, rs) ==
    LET shared == IF lk = rk THEN {lk} ELSE {}
        overlap == (left.cols \cap right.cols) \ shared
        LName(c) == IF c \in overlap THEN c \o ls ELSE c
        RName(c) == IF c \in overlap THEN c \o rs ELSE c
        rcols == right.cols \ shared
        cols == {LName(c) : c \in left.cols} \cup {RName(c) : c \in rcols}
        Joined(l, r) ==
            [x \in cols |->
                IF \E c \in left.cols : LName(c) = x
                THEN l[CHOOSE c \in left.cols : LName(c) = x]
                ELSE r[CHOOSE c \in rcols : RName(c) = x]]
        Unmatched(l) ==
            [x \in cols |->
                IF \E c \in left.cols : LName(c) = x
                THEN l[CHOOSE c \in left.cols : LName(c) = x]
                ELSE Null]
        Matches(l) ==
            FilterSeq(right.rows,
                      [j \in DOMAIN right.rows |-> KeyEq(l[lk], right.rows[j][rk])])
        RowsFor(l) ==
            IF Matches(l) = <<>> THEN <<Unmatched(l)>>
            ELSE [j \in DOMAIN Matches(l) |-> Joined(l, Matches(l)[j])]
    IN DataFrame(cols, FlattenSeq([i \in DOMAIN left.rows |-> RowsFor(left.rows[i])]))

CanMerge(left, right, lk, rk) == lk \in left.cols /\ rk \in right.cols

-----------------------------------------------------------------------------
(* Field transforms *)

UpperCase == <<"A", "B", "C", "D", "E", "F", "G", "H", "I", "J", "K", "L", "M",
               "N", "O", "P", "Q", "R", "S", "T", "U", "V", "W", "X", "Y", "Z">>
LowerCase == <<"a", "b", "c", "d", "e", "f", "g", "h", "i", "j", "k", "l", "m",
               "n", "o", "p", "q", "r", "s", "t", "u", "v", "w", "x", "y", "z">>

\* str.lower() on one character
Lower(c) == IF \E i \in DOMAIN UpperCase : UpperCase[i] = c
            THEN LowerCase[CHOOSE i \in DOMAIN UpperCase : UpperCase[i] = c]
            ELSE c

\* .str.lower().str.replace('[^a-z]', '', regex=True); a null cell stays null
NormalizeRoomType(v) ==
    IF v.k # "str" THEN v
    ELSE LET low == [i \in DOMAIN v.s |-> Lower(v.s[i])]
         IN StrV(FilterSeq(low, [i \in DOMAIN low |-> low[i] \in Range(LowerCase)]))

StartsWithPlus(s) == Len(s) > 0 /\ s[1] = "+"

\* etl_fact.py: lambda x: f"+62{x}" if x and not x.startswith('+') else x
FactPhoneLambda(x) ==
    IF Truthy(x) /\ ~StartsWithPlus(x.s) THEN StrV(<<"+", "6", "2">> \o x.s) ELSE x

\* the lambda without its startswith('+') test
PhoneLambdaAlwaysPrefixes(x) ==
    IF Truthy(x) THEN StrV(<<"+", "6", "2">> \o x.s) ELSE x

\* etl_dims.py: lambda x: f"+62{x}" if x and not x.startswith('+') else x
DimsPhoneLambda(x) ==
    IF Truthy(x) /\ ~StartsWithPlus(x.s) THEN StrV(<<"+", "6", "2">> \o x.s) ELSE x

\* etl_fact.py transform_room_type: guarded by the column's presence
transform_room_type(df) ==
    IF "room_type" \in df.cols THEN MapColumn(df, "room_type", NormalizeRoomType) ELSE df

\* etl_fact.py transform_phone_number: guarded by the column's presence
transform_phone_number(df) ==
    IF "phone_number" \in df.cols THEN MapColumn(df, "phone_number", FactPhoneLambda) ELSE df

\* etl_fact.py transform_reservation_data (total_discount is handled like
\* total_room_price)
transform_reservation_data(df) ==
    IF "total_room_price" \in df.cols THEN MapColumn(df, "total_room_price", ToFloat) ELSE df

\* etl_dims.py transform_dimension_data: df['room_type'] / df['phone_number']
\* is read without a guard, so a missing column raises KeyError
TransformDimensionRaises(df, dimension_type) ==
    \/ dimension_type = "dim_rooms" /\ "room_type" \notin df.cols
    \/ dimension_type = "dim_guests" /\ "phone_number" \notin df.cols

transform_dimension_data(df, dimension_type) ==
    CASE dimension_type = "dim_rooms" -> MapColumn(df, "room_type", NormalizeRoomType)
      [] dimension_type = "dim_guests" -> MapColumn(df, "phone_number", DimsPhoneLambda)
      [] OTHER -> df

-----------------------------------------------------------------------------
(* Dimension and fact preparation *)

columns_map(dimension_type) ==
    CASE dimension_type = "dim_reservations" -> [c \in {"id"} |-> "reservation_id"]
      [] dimension_type = "dim_stays" ->
            [c \in {"id", "reference_reservation_id"} |->
                IF c = "id" THEN "stay_id" ELSE "reservation_id"]
      [] dimension_type = "dim_rooms" -> [c \in {"id"} |-> "room_id"]
      [] dimension_type = "dim_guests" -> [c \in {"id"} |-> "guest_id"]
      [] OTHER -> [c \in {} |-> c]

\* prepare_data stamping the three columns without testing for their presence
prepare_data_overwrites(df, dimension_type, now) ==
    SetColumn(SetColumn(SetColumn(Rename(df, columns_map(dimension_type)),
                                  "effective_date", DateV(now)),
                        "end_date", Null),
              "current_flag", BoolV(TRUE))

\* etl_dims.py prepare_data; now is pd.Timestamp.now().normalize()
prepare_data(df, dimension_type, now) ==
    LET df1 == Rename(df, columns_map(dimension_type))
        df2 == IF "effective_date" \notin df1.cols
               THEN SetColumn(df1, "effective_date", DateV(now)) ELSE df1
        df3 == IF "end_date" \notin df2.cols THEN SetColumn(df2, "end_date", Null) ELSE df2
        df4 == IF "current_flag" \notin df3.cols
               THEN SetColumn(df3, "current_flag", BoolV(TRUE)) ELSE df3
    IN df4

\* etl_fact.py prepare_fact_data
prepare_fact_data(df, columns, id_col, new_id_col) ==
    Rename(DropDuplicates(Select(df, columns), id_col), [c \in {id_col} |-> new_id_col])

FactReservationColumns == <<"id", "total_room_price", "voucher_code">>
FactStayColumns == <<"id", "reservation_id", "room_id", "guest_id">>

-----------------------------------------------------------------------------
(* Loads: DataFrame.to_sql inside try/except *)

\* if_exists='append' where 'replace' is meant
LoadReplaceAppends(old, df, outcome) ==
    IF outcome = "ok" THEN old \o df.rows ELSE old

\* if_exists='replace'.  A failed write leaves the table as it was, or
\* dropped, depending on where the write failed.
LoadReplace(old, df, outcome) ==
    CASE outcome = "ok" -> df.rows
      [] outcome = "failed" -> old
      [] OTHER -> <<>>

\* if_exists='append'
LoadAppend(old, df, outcome) ==
    IF outcome = "ok" THEN old \o df.rows ELSE old

ReplaceOutcomes == {"ok", "failed", "dropped"}
AppendOutcomes == {"ok", "failed"}

LoadMessage(table, outcome) ==
    [msg |-> IF outcome = "ok" THEN "loaded" ELSE "load_error", table |-> table]

ExtractMessages(table, df) ==
    IF df.ok THEN <<>> ELSE <<[msg |-> "extract_error", table |-> table]>>

\* extract_data: the table's current contents, or None when the read fails
ExtractResults(table) == {source[table], None}

-----------------------------------------------------------------------------
(* Job control shared by the three entry points *)

IsLoadMessage(m) == m.msg \in {"loaded", "load_error"}
Loads(l) == SelectSeq(l, IsLoadMessage)

StartJob(j, first) ==
    /\ pc = "idle"
    /\ runs > 0
    /\ job' = j
    /\ pc' = first
    /\ frames' = <<>>
    /\ log' = <<>>
    /\ result' = "running"
    /\ runs' = runs - 1
    /\ UNCHANGED <<source, dwh, today, edits>>

\* an uncaught exception ends the process
Crash ==
    /\ pc' = "idle"
    /\ result' = "crashed"
    /\ UNCHANGED <<source, dwh, job, frames, log, today, runs, edits>>

\* only the first extracted batch is tested
FirstNone == ~frames["reservations_df"].ok

\* `reservations_df is None or stays_df is None or ...`
AnyNone == \E v \in DOMAIN frames : ~frames[v].ok

-----------------------------------------------------------------------------
(* etl_dims.py main *)

DimsExtractOrder == << <<"reservations_df", "Reservations">>, <<"stays_df", "Stays">>,
                       <<"rooms_df", "Rooms">>, <<"guests_df", "Users">> >>
DimsLoadOrder == << <<"reservations_df", "dim_reservations">>, <<"stays_df", "dim_stays">>,
                    <<"rooms_df", "dim_rooms">>, <<"guests_df", "dim_guests">> >>

DimsTableOf(v) == DimsLoadOrder[CHOOSE i \in DOMAIN DimsLoadOrder : DimsLoadOrder[i][1] = v][2]

StartDims == StartJob("dims", "extract")

\* lines 56-59: one extract_data call
DimsExtract ==
    /\ job = "dims" /\ pc = "extract"
    /\ Cardinality(DOMAIN frames) < Len(DimsExtractOrder)
    /\ LET e == DimsExtractOrder[Cardinality(DOMAIN frames) + 1]
       IN \E df \in ExtractResults(e[2]) :
             /\ frames' = frames @@ (e[1] :> df)
             /\ log' = log \o ExtractMessages(e[2], df)
    /\ UNCHANGED <<source, dwh, pc, job, result, today, runs, edits>>

\* lines 61-63
DimsCheck ==
    /\ job = "dims" /\ pc = "extract"
    /\ Cardinality(DOMAIN frames) = Len(DimsExtractOrder)
    /\ IF AnyNone
       THEN /\ pc' = "idle"
            /\ result' = "aborted"
            /\ log' = Append(log, [msg |-> "abort", table |-> ""])
       ELSE /\ pc' = "transform"
            /\ UNCHANGED <<result, log>>
    /\ UNCHANGED <<source, dwh, job, frames, today, runs, edits>>

\* lines 66-67
DimsTransform ==
    /\ job = "dims" /\ pc = "transform"
    /\ IF \/ TransformDimensionRaises(frames["rooms_df"], "dim_rooms")
          \/ TransformDimensionRaises(frames["guests_df"], "dim_guests")
       THEN Crash
       ELSE /\ frames' = [frames EXCEPT
                  !["rooms_df"] = transform_dimension_data(@, "dim_rooms"),
                  !["guests_df"] = transform_dimension_data(@, "dim_guests")]
            /\ pc' = "prepare"
            /\ UNCHANGED <<source, dwh, job, log, result, today, runs, edits>>

\* lines 70-73
DimsPrepare ==
    /\ job = "dims" /\ pc = "prepare"
    /\ frames' = [v \in DOMAIN frames |-> prepare_data(frames[v], DimsTableOf(v), today)]
    /\ pc' = "load"
    /\ UNCHANGED <<source, dwh, job, log, result, today, runs, edits>>

\* load_dimension_data without its try/except: a failed write ends the job
DimsLoadRaises ==
    /\ job = "dims" /\ pc = "load"
    /\ LET k == Len(Loads(log)) + 1
           table == DimsLoadOrder[k][2]
       IN \E outcome \in ReplaceOutcomes :
             /\ dwh' = [dwh EXCEPT
                   ![table] = LoadReplace(@, frames[DimsLoadOrder[k][1]], outcome)]
             /\ log' = Append(log, LoadMessage(table, outcome))
             /\ IF outcome # "ok"
                THEN pc' = "idle" /\ result' = "crashed"
                ELSE IF k = Len(DimsLoadOrder)
                     THEN pc' = "idle" /\ result' = "finished"
                     ELSE UNCHANGED <<pc, result>>
    /\ UNCHANGED <<source, job, frames, today, runs, edits>>

\* lines 76-79: one load_dimension_data call
DimsLoad ==
    /\ job = "dims" /\ pc = "load"
    /\ LET k == Len(Loads(log)) + 1
           table == DimsLoadOrder[k][2]
       IN /\ \E outcome \in ReplaceOutcomes :
                /\ dwh' = [dwh EXCEPT ![table] = LoadReplace(@, frames[DimsLoadOrder[k][1]], outcome)]
                /\ log' = Append(log, LoadMessage(table, outcome))
          /\ IF k = Len(DimsLoadOrder)
             THEN pc' = "idle" /\ result' = "finished"
             ELSE UNCHANGED <<pc, result>>
    /\ UNCHANGED <<source, job, frames, today, runs, edits>>

-----------------------------------------------------------------------------
(* etl_fact.py main *)

FactExtractOrder == << <<"reservations_df", "Reservations">>, <<"stays_df", "Stays">>,
                       <<"rooms_df", "Rooms">>, <<"users_df", "Users">> >>
FactLoadOrder == << <<"fact_reservations", "fact_reservations">>,
                    <<"fact_stays", "fact_stays">> >>

StartFact == StartJob("fact", "extract")

\* lines 108-111: one extract_data call
FactExtract ==
    /\ job = "fact" /\ pc = "extract"
    /\ Cardinality(DOMAIN frames) < Len(FactExtractOrder)
    /\ LET e == FactExtractOrder[Cardinality(DOMAIN frames) + 1]
       IN \E df \in ExtractResults(e[2]) :
             /\ frames' = frames @@ (e[1] :> df)
             /\ log' = log \o ExtractMessages(e[2], df)
    /\ UNCHANGED <<source, dwh, pc, job, result, today, runs, edits>>

\* lines 114-116
FactCheck ==
    /\ job = "fact" /\ pc = "extract"
    /\ Cardinality(DOMAIN frames) = Len(FactExtractOrder)
    /\ IF AnyNone
       THEN /\ pc' = "idle"
            /\ result' = "aborted"
            /\ log' = Append(log, [msg |-> "abort", table |-> ""])
       ELSE /\ pc' = "transform"
            /\ UNCHANGED <<result, log>>
    /\ UNCHANGED <<source, dwh, job, frames, today, runs, edits>>

\* lines 119-121
FactTransform ==
    /\ job = "fact" /\ pc = "transform"
    /\ frames' = [frames EXCEPT
          !["rooms_df"] = transform_room_type(@),
          !["users_df"] = transform_phone_number(@),
          !["reservations_df"] = transform_reservation_data(@)]
    /\ pc' = "merge"
    /\ UNCHANGED <<source, dwh, job, log, result, today, runs, edits>>

\* lines 124-126: stays_df after the two lookups and the rename
MergedStays(f) ==
    LET s1 == MergeLeft(f["stays_df"], Select(f["rooms_df"], <<"id", "room_type">>),
                        "room_id", "id", "", "_room")
        s2 == MergeLeft(s1, Select(f["users_df"], <<"id", "phone_number">>),
                        "guest_id", "id", "", "_guest")
    IN Rename(s2, [c \in {"reference_reservation_id"} |-> "reservation_id"])

\* line 128
MergedReservations(f, stays) ==
    MergeLeft(f["reservations_df"], Select(stays, <<"reservation_id">>),
              "id", "reservation_id", "", "_stays")

\* a column named by lines 124-128 is missing: KeyError
MergeRaises(f) ==
    \/ ~CanSelect(f["rooms_df"], <<"id", "room_type">>)
    \/ ~CanSelect(f["users_df"], <<"id", "phone_number">>)
    \/ ~CanSelect(f["stays_df"], <<"room_id", "guest_id", "reference_reservation_id">>)
    \/ ~CanSelect(f["reservations_df"], <<"id">>)

FactMerge ==
    /\ job = "fact" /\ pc = "merge"
    /\ IF MergeRaises(frames)
       THEN Crash
       ELSE /\ frames' = [frames EXCEPT
                  !["stays_df"] = MergedStays(frames),
                  !["reservations_df"] = MergedReservations(frames, MergedStays(frames))]
            /\ pc' = "reconcile"
            /\ UNCHANGED <<source, dwh, job, log, result, today, runs, edits>>

\* lines 131-132
ValidMask(stays, reservations) ==
    [i \in DOMAIN stays.rows |->
        IsIn(stays.rows[i]["reservation_id"], Column(reservations, "id"))]

\* the isin mask is dropped: every stay is taken as valid
valid_stays_unfiltered(stays, reservations) == stays

valid_stays(stays, reservations) ==
    DataFrame(stays.cols, FilterSeq(stays.rows, ValidMask(stays, reservations)))

invalid_stays(stays, reservations) ==
    DataFrame(stays.cols,
              FilterSeq(stays.rows,
                        [i \in DOMAIN stays.rows |-> ~ValidMask(stays, reservations)[i]]))

\* lines 131-137
FactReconcile ==
    /\ job = "fact" /\ pc = "reconcile"
    /\ LET valid == valid_stays(frames["stays_df"], frames["reservations_df"])
           invalid == invalid_stays(frames["stays_df"], frames["reservations_df"])
       IN /\ frames' = frames @@ ("valid_stays" :> valid) @@ ("invalid_stays" :> invalid)
          /\ log' = IF invalid.rows # <<>>
                    THEN Append(log, [msg |-> "invalid_stays", table |-> "Stays"])
                    ELSE log
    /\ pc' = "prepare"
    /\ UNCHANGED <<source, dwh, job, result, today, runs, edits>>

\* lines 140-146
FactPrepare ==
    /\ job = "fact" /\ pc = "prepare"
    /\ IF \/ ~CanSelect(frames["reservations_df"], FactReservationColumns)
          \/ ~CanSelect(frames["valid_stays"], FactStayColumns)
       THEN Crash
       ELSE /\ frames' = frames
                  @@ ("fact_reservations" :>
                         prepare_fact_data(frames["reservations_df"],
                                           FactReservationColumns, "id", "reservation_id"))
                  @@ ("fact_stays" :>
                         prepare_fact_data(frames["valid_stays"],
                                           FactStayColumns, "id", "stay_id"))
            /\ pc' = "load"
            /\ UNCHANGED <<source, dwh, job, log, result, today, runs, edits>>

\* lines 149-150: one load_data call
FactLoad ==
    /\ job = "fact" /\ pc = "load"
    /\ LET k == Len(Loads(log)) + 1
           table == FactLoadOrder[k][2]
       IN /\ \E outcome \in AppendOutcomes :
                /\ dwh' = [dwh EXCEPT
                      ![table] = LoadAppend(@, frames[FactLoadOrder[k][1]], outcome)]
                /\ log' = Append(log, LoadMessage(table, outcome))
          /\ IF k = Len(FactLoadOrder)
             THEN pc' = "idle" /\ result' = "finished"
             ELSE UNCHANGED <<pc, result>>
    /\ UNCHANGED <<source, job, frames, today, runs, edits>>

-----------------------------------------------------------------------------
(* etl_data_mart.py *)

MarketingSelect == <<"id_x", "total_room_price", "name", "description">>
MarketingColumns == <<"reservation_id", "total_room_price", "campaign_name",
                      "campaign_description">>
FinanceSelect == <<"id", "total_room_price", "amount">>
FinanceColumns == <<"reservation_id", "total_room_price", "payment_amount">>
HotelBranchSelect == <<"id_x", "reference_reservation_id", "room_id", "name", "room_type">>
HotelBranchColumns == <<"stay_id", "reservation_id", "room_id", "room_name", "room_type">>

\* the merge without the two astype(str) coercions
MarketingMergedUncoerced(reservations, campaigns) ==
    MergeLeft(reservations, campaigns, "voucher_code", "id", "_x", "_y")

\* lines 52-56
MarketingMerged(reservations, campaigns) ==
    MergeLeft(MapColumn(reservations, "voucher_code", LAMBDA v : StrV(ToStr(v))),
              MapColumn(campaigns, "id", LAMBDA v : StrV(ToStr(v))),
              "voucher_code", "id", "_x", "_y")

MarketingRaises(reservations, campaigns) ==
    \/ "voucher_code" \notin reservations.cols
    \/ "id" \notin campaigns.cols
    \/ ~CanSelect(MarketingMerged(reservations, campaigns), MarketingSelect)

\* lines 52-62
marketing_mart(reservations, campaigns) ==
    SetColumns(Select(MarketingMerged(reservations, campaigns), MarketingSelect),
               MarketingSelect, MarketingColumns)

\* line 77
FinanceMerged(reservations, payments) ==
    MergeLeft(reservations, payments, "id", "id", "_x", "_y")

FinanceRaises(reservations, payments) ==
    \/ "id" \notin reservations.cols
    \/ "id" \notin payments.cols
    \/ ~CanSelect(FinanceMerged(reservations, payments), FinanceSelect)

\* lines 77-81
finance_mart(reservations, payments) ==
    SetColumns(Select(FinanceMerged(reservations, payments), FinanceSelect),
               FinanceSelect, FinanceColumns)

\* line 96
HotelBranchMerged(stays, rooms) ==
    MergeLeft(stays, rooms, "room_id", "id", "_x", "_y")

HotelBranchRaises(stays, rooms) ==
    \/ "room_id" \notin stays.cols
    \/ "id" \notin rooms.cols
    \/ ~CanSelect(HotelBranchMerged(stays, rooms), HotelBranchSelect)

\* lines 96-100
hotel_branch_mart(stays, rooms) ==
    SetColumns(Select(HotelBranchMerged(stays, rooms), HotelBranchSelect),
               HotelBranchSelect, HotelBranchColumns)

\* etl_data_mart.py load_data, called with the mart just built
MartLoad(table, mart) ==
    \E outcome \in ReplaceOutcomes :
        /\ dwh' = [dwh EXCEPT ![table] = LoadReplace(@, mart, outcome)]
        /\ log' = log \o <<LoadMessage(table, outcome)>>

\* the locals of one create_*_mart call, kept under the mart's name
MartLocals(mart, a, dfa, b, dfb) ==
    frames @@ ((mart \o "." \o a) :> dfa) @@ ((mart \o "." \o b) :> dfb)

StartMart == StartJob("mart", "marketing")

\* create_marketing_mart ending the job when an extraction fails, as the
\* other two jobs do
create_marketing_mart_aborts ==
    /\ job = "mart" /\ pc = "marketing"
    /\ \E reservations \in ExtractResults("Reservations"),
          campaigns \in ExtractResults("Campaign") :
          /\ frames' = MartLocals("marketing", "reservations", reservations,
                                  "campaigns", campaigns)
          /\ IF reservations.ok /\ campaigns.ok
             THEN /\ MartLoad("marketing_mart", marketing_mart(reservations, campaigns))
                  /\ pc' = "finance"
                  /\ UNCHANGED result
             ELSE /\ pc' = "idle" /\ result' = "aborted"
                  /\ UNCHANGED <<dwh, log>>
    /\ UNCHANGED <<source, job, today, runs, edits>>

\* lines 42-65
create_marketing_mart ==
    /\ job = "mart" /\ pc = "marketing"
    /\ \E reservations \in ExtractResults("Reservations"),
          campaigns \in ExtractResults("Campaign") :
          /\ frames' = MartLocals("marketing", "reservations", reservations,
                                  "campaigns", campaigns)
          /\ IF reservations.ok /\ campaigns.ok
             THEN IF MarketingRaises(reservations, campaigns)
                  THEN /\ pc' = "idle" /\ result' = "crashed"
                       /\ UNCHANGED <<dwh, log>>
                  ELSE /\ MartLoad("marketing_mart", marketing_mart(reservations, campaigns))
                       /\ pc' = "finance"
                       /\ UNCHANGED result
             ELSE /\ pc' = "finance"
                  /\ UNCHANGED <<dwh, log, result>>
    /\ UNCHANGED <<source, job, today, runs, edits>>

\* lines 67-84
create_finance_mart ==
    /\ job = "mart" /\ pc = "finance"
    /\ \E reservations \in ExtractResults("Reservations"),
          payments \in ExtractResults("Payments") :
          /\ frames' = MartLocals("finance", "reservations", reservations,
                                  "payments", payments)
          /\ IF reservations.ok /\ payments.ok
             THEN IF FinanceRaises(reservations, payments)
                  THEN /\ pc' = "idle" /\ result' = "crashed"
                       /\ UNCHANGED <<dwh, log>>
                  ELSE /\ MartLoad("finance_mart", finance_mart(reservations, payments))
                       /\ pc' = "hotel_branch"
                       /\ UNCHANGED result
             ELSE /\ pc' = "hotel_branch"
                  /\ UNCHANGED <<dwh, log, result>>
    /\ UNCHANGED <<source, job, today, runs, edits>>

\* lines 86-103; returning from it ends main (lines 105-111)
create_hotel_branch_mart ==
    /\ job = "mart" /\ pc = "hotel_branch"
    /\ \E stays \in ExtractResults("Stays"), rooms \in ExtractResults("Rooms") :
          /\ frames' = MartLocals("hotel_branch", "stays", stays, "rooms", rooms)
          /\ IF stays.ok /\ rooms.ok
             THEN IF HotelBranchRaises(stays, rooms)
                  THEN /\ pc' = "idle" /\ result' = "crashed"
                       /\ UNCHANGED <<dwh, log>>
                  ELSE /\ MartLoad("hotel_branch_mart", hotel_branch_mart(stays, rooms))
                       /\ pc' = "idle" /\ result' = "finished"
             ELSE /\ pc' = "idle" /\ result' = "finished"
                  /\ UNCHANGED <<dwh, log>>
    /\ UNCHANGED <<source, job, today, runs, edits>>

-----------------------------------------------------------------------------
(* Environment *)

SourceTables == {"Reservations", "Stays", "Rooms", "Users", "Campaign", "Payments"}
DimTables == {"dim_reservations", "dim_stays", "dim_rooms", "dim_guests"}
FactTables == {"fact_reservations", "fact_stays"}
MartTables == {"marketing_mart", "finance_mart", "hotel_branch_mart"}
WarehouseTables == DimTables \cup FactTables \cup MartTables

\* a booking is cancelled: the operational system deletes the oldest row of
\* a transactional table
ChangingTables == {"Reservations", "Stays"}

SourceChange ==
    /\ edits > 0
    /\ \E t \in ChangingTables :
          /\ source[t].rows # <<>>
          /\ source' = [source EXCEPT ![t].rows = Tail(@)]
    /\ edits' = edits - 1
    /\ UNCHANGED <<dwh, pc, job, frames, log, result, today, runs>>

\* midnight passes
Tick ==
    /\ today < MaxDay
    /\ today' = today + 1
    /\ UNCHANGED <<source, dwh, pc, job, frames, log, result, runs, edits>>

-----------------------------------------------------------------------------
(* Source data *)

SeqsUpTo(S, n) == UNION {[1..k -> S] : k \in 0..n}

ReservationCols == {"id", "voucher_code", "total_room_price"}
StayCols == {"id", "reference_reservation_id", "room_id", "guest_id"}
RoomCols == {"id", "name", "room_type"}
UserCols == {"id", "phone_number"}
CampaignCols == {"id", "name", "description"}
PaymentCols == {"id", "amount"}

ReservationRow(id, voucher) ==
    [id |-> IntV(id), voucher_code |-> voucher, total_room_price |-> IntV(100)]
StayRow(id, ref, room) ==
    [id |-> IntV(id), reference_reservation_id |-> ref, room_id |-> IntV(room),
     guest_id |-> IntV(1)]
RoomRow(id, name) ==
    [id |-> IntV(id), name |-> StrV(name), room_type |-> StrV(<<"D", "-", "1", "x">>)]
UserRow(id, phone) == [id |-> IntV(id), phone_number |-> phone]
CampaignRow(id, name) ==
    [id |-> id, name |-> StrV(name), description |-> StrV(name \o <<"!">>)]
PaymentRow(id, amount) == [id |-> IntV(id), amount |-> IntV(amount)]

EmptyWarehouse == [t \in WarehouseTables |-> <<>>]

\* the end-to-end scenario of the specification, in small
SampleSource ==
    [t \in SourceTables |->
        CASE t = "Reservations" ->
               DataFrame(ReservationCols,
                         <<ReservationRow(1, StrV(<<"5">>)), ReservationRow(2, Null)>>)
          [] t = "Stays" ->
               DataFrame(StayCols, <<StayRow(1, IntV(1), 1), StayRow(2, IntV(9), 1)>>)
          [] t = "Rooms" -> DataFrame(RoomCols, <<RoomRow(1, <<"A">>)>>)
          [] t = "Users" -> DataFrame(UserCols, <<UserRow(1, StrV(<<"0", "8">>))>>)
          [] t = "Campaign" -> DataFrame(CampaignCols, <<CampaignRow(IntV(5), <<"c">>)>>)
          [] OTHER -> DataFrame(PaymentCols, <<PaymentRow(1, 50)>>)]

InitControl ==
    /\ dwh = EmptyWarehouse
    /\ pc = "idle"
    /\ job = "none"
    /\ frames = <<>>
    /\ log = <<>>
    /\ result = "none"
    /\ today = 0

-----------------------------------------------------------------------------
(* The three jobs, run one after another against a changing source *)

Init ==
    /\ InitControl
    /\ source = SampleSource
    /\ runs = MaxRuns
    /\ edits = MaxChanges

DimsJob == StartDims \/ DimsExtract \/ DimsCheck \/ DimsTransform \/ DimsPrepare \/ DimsLoad
FactJob == StartFact \/ FactExtract \/ FactCheck \/ FactTransform \/ FactMerge
              \/ FactReconcile \/ FactPrepare \/ FactLoad
MartJob == StartMart \/ create_marketing_mart \/ create_finance_mart
              \/ create_hotel_branch_mart

Next == DimsJob \/ FactJob \/ MartJob \/ SourceChange

Spec == Init /\ [][Next]_vars

-----------------------------------------------------------------------------
(* The fact job alone, over every small Reservations and Stays batch *)

FactReservationRows ==
    {ReservationRow(1, StrV(<<"5">>)), ReservationRow(1, Null), ReservationRow(2, StrV(<<"5">>))}

FactStayRows ==
    {StayRow(1, IntV(1), 1), StayRow(2, IntV(1), 1), StayRow(2, FloatV(2), 2),
     StayRow(1, IntV(9), 1), StayRow(2, Null, 1)}

\* one room; two rows with the same room id; a Rooms table without room_type
FactRoomFrames ==
    {DataFrame(RoomCols, <<RoomRow(1, <<"A">>)>>),
     DataFrame(RoomCols, <<RoomRow(1, <<"A">>), RoomRow(1, <<"B">>)>>),
     DataFrame({"id", "name"}, <<[id |-> IntV(1), name |-> StrV(<<"A">>)]>>)}

InitFact ==
    /\ InitControl
    /\ \E r \in SeqsUpTo(FactReservationRows, MaxRows), st \in SeqsUpTo(FactStayRows, MaxRows),
          rooms \in FactRoomFrames :
          source = [SampleSource EXCEPT !["Reservations"] = DataFrame(ReservationCols, r),
                                        !["Stays"] = DataFrame(StayCols, st),
                                        !["Rooms"] = rooms]
    /\ runs = 1
    /\ edits = 0

SpecFact == InitFact /\ [][FactJob]_vars

-----------------------------------------------------------------------------
(* The dimension job alone, over source tables with more or fewer columns,  *)
(* while the clock runs                                                     *)

Bookkeeping == {"effective_date", "end_date", "current_flag"}

\* what a source table holds in a column that is named like a bookkeeping column
Stale(c) ==
    CASE c = "effective_date" -> StrV(<<"o", "l", "d">>)
      [] c = "end_date" -> DateV(0)
      [] OTHER -> BoolV(FALSE)

WithColumns(row, extra) ==
    [c \in DOMAIN row \cup extra |-> IF c \in DOMAIN row THEN row[c] ELSE Stale(c)]

DimsReservationRows == {ReservationRow(1, Null), ReservationRow(2, Null)}

DimsRoomFrames ==
    {DataFrame(RoomCols, <<RoomRow(1, <<"A">>)>>),
     DataFrame({"id", "name"}, <<[id |-> IntV(1), name |-> StrV(<<"A">>)]>>)}

DimsUserFrames ==
    {DataFrame(UserCols, <<UserRow(1, StrV(<<"0", "8">>))>>),
     DataFrame({"id"}, <<[id |-> IntV(1)]>>)}

InitDims ==
    /\ InitControl
    /\ \E r \in SeqsUpTo(DimsReservationRows, MaxRows), extra \in SUBSET Bookkeeping,
          rooms \in DimsRoomFrames, users \in DimsUserFrames :
          source = [SampleSource EXCEPT
                       !["Reservations"] =
                           DataFrame(ReservationCols \cup extra,
                                     [i \in DOMAIN r |-> WithColumns(r[i], extra)]),
                       !["Rooms"] = rooms,
                       !["Users"] = users]
    /\ runs = 1
    /\ edits = 0

SpecDims == InitDims /\ [][DimsJob \/ Tick]_vars

-----------------------------------------------------------------------------
(* The mart job alone, over voucher codes and campaign ids of both types *)

MartReservationRows ==
    {ReservationRow(1, StrV(<<"5">>)), ReservationRow(2, StrV(<<"9">>)), ReservationRow(3, Null)}

MartCampaignRows ==
    {CampaignRow(IntV(5), <<"a">>), CampaignRow(StrV(<<"5">>), <<"b">>),
     CampaignRow(IntV(7), <<"c">>)}

InitMart ==
    /\ InitControl
    /\ \E r \in SeqsUpTo(MartReservationRows, MaxRows),
          c \in SeqsUpTo(MartCampaignRows, MaxRows) :
          source = [SampleSource EXCEPT !["Reservations"] = DataFrame(ReservationCols, r),
                                        !["Campaign"] = DataFrame(CampaignCols, c)]
    /\ runs = 1
    /\ edits = 0

SpecMart == InitMart /\ [][MartJob]_vars

-----------------------------------------------------------------------------
(* The phone-number normalisation of both jobs, applied repeatedly *)

PhoneChars == {"+", "6", "2", "8"}
PhoneInputs == {Null} \cup {StrV(p) : p \in SeqsUpTo(PhoneChars, MaxLen)}

InitPhone ==
    /\ dwh = EmptyWarehouse
    /\ pc = "phone"
    /\ job = "none"
    /\ log = <<>>
    /\ result = "none"
    /\ today = 0
    /\ \E p \in PhoneInputs :
          source = [SampleSource EXCEPT !["Users"] = DataFrame(UserCols, <<UserRow(1, p)>>)]
    /\ frames = ("users_df" :> source["Users"])
    /\ runs = MaxApply
    /\ edits = 0

\* etl_dims.py line 67 on the Users batch
PhoneDims ==
    /\ pc = "phone" /\ runs > 0
    /\ frames' = [frames EXCEPT !["users_df"] = transform_dimension_data(@, "dim_guests")]
    /\ log' = Append(log, [msg |-> "normalized", table |-> "dim_guests"])
    /\ runs' = runs - 1
    /\ UNCHANGED <<source, dwh, pc, job, result, today, edits>>

\* etl_fact.py line 120 on the Users batch
PhoneFact ==
    /\ pc = "phone" /\ runs > 0
    /\ frames' = [frames EXCEPT !["users_df"] = transform_phone_number(@)]
    /\ log' = Append(log, [msg |-> "normalized", table |-> "fact"])
    /\ runs' = runs - 1
    /\ UNCHANGED <<source, dwh, pc, job, result, today, edits>>

SpecPhone == InitPhone /\ [][PhoneDims \/ PhoneFact]_vars

-----------------------------------------------------------------------------
(* Properties of the fact job *)

\* two ids name the same entity: both present and numerically equal
SameId(a, b) == IsNumber(a) /\ IsNumber(b) /\ a.n = b.n

ExtractedStays == source["Stays"].rows
ExtractedReservations == source["Reservations"].rows

\* the stay's reference is the id of an extracted reservation
HasReservation(s) ==
    \E j \in DOMAIN ExtractedReservations :
        SameId(ExtractedReservations[j]["id"], s["reference_reservation_id"])

\* the stay s is a row of rows, whose stay key is the column idcol
StayIn(rows, s, idcol) ==
    \E i \in DOMAIN rows :
        /\ rows[i][idcol] = s["id"]
        /\ rows[i]["reservation_id"] = s["reference_reservation_id"]
        /\ rows[i]["room_id"] = s["room_id"]
        /\ rows[i]["guest_id"] = s["guest_id"]

Reconciled == job = "fact" /\ "valid_stays" \in DOMAIN frames
Prepared == job = "fact" /\ "fact_stays" \in DOMAIN frames

\* C1: an extracted stay is in the valid set iff its reference is the id of
\* an extracted reservation, and in the invalid set otherwise; the two sets
\* hold nothing but extracted stays; fact_stays (the batch and the table) is
\* fed from the valid set only, so an unreferenced stay is in no row of it.
C1_ValidIffReferenced ==
    Reconciled =>
        LET valid == frames["valid_stays"].rows
            invalid == frames["invalid_stays"].rows
        IN /\ \A s \in Range(ExtractedStays) :
                 /\ StayIn(valid, s, "id") <=> HasReservation(s)
                 /\ StayIn(invalid, s, "id") <=> ~HasReservation(s)
                 /\ ~HasReservation(s) => ~StayIn(dwh["fact_stays"], s, "stay_id")
                 /\ (Prepared /\ ~HasReservation(s))
                       => ~StayIn(frames["fact_stays"].rows, s, "stay_id")
           /\ \A i \in DOMAIN valid :
                 \E s \in Range(ExtractedStays) : StayIn(<<valid[i]>>, s, "id")
           /\ \A i \in DOMAIN invalid :
                 \E s \in Range(ExtractedStays) : StayIn(<<invalid[i]>>, s, "id")
           /\ (invalid # <<>>) <=>
                 (\E i \in DOMAIN log : log[i].msg = "invalid_stays")
           /\ Prepared =>
                 \A s \in Range(ExtractedStays) :
                     HasReservation(s) =>
                         \E i \in DOMAIN frames["fact_stays"].rows :
                             frames["fact_stays"].rows[i]["stay_id"] = s["id"]

\* a finished fact run that loaded a referenced stay and reported a stay with
\* a null reference
C1_Witness ==
    /\ job = "fact" /\ result = "finished"
    /\ Len(dwh["fact_stays"]) = 1
    /\ \E i \in DOMAIN frames["invalid_stays"].rows :
          frames["invalid_stays"].rows[i]["reservation_id"] = Null
    /\ \E i \in DOMAIN log : log[i].msg = "invalid_stays"

NoDuplicateKey(rows, c) ==
    \A i, j \in DOMAIN rows : SameId(rows[i][c], rows[j][c]) => i = j

\* the first row of rows, in order, that satisfies P
FirstIndex(rows, P(_)) ==
    CHOOSE i \in DOMAIN rows : P(rows[i]) /\ \A j \in 1..(i - 1) : ~P(rows[j])

\* C2: the batches appended to fact_reservations and to fact_stays hold at
\* most one row per reservation_id / stay_id, every extracted reservation id
\* and every valid stay id is kept once, and the row kept is the first row
\* with that id in batch order.
C2_OneRowPerIdFirstKept ==
    Prepared =>
        LET fr == frames["fact_reservations"].rows
            fs == frames["fact_stays"].rows
        IN /\ NoDuplicateKey(fr, "reservation_id")
           /\ NoDuplicateKey(fs, "stay_id")
           /\ \A r \in Range(ExtractedReservations) :
                 \E i \in DOMAIN fr : SameId(fr[i]["reservation_id"], r["id"])
           /\ \A i \in DOMAIN fr :
                 LET WithId(r) == SameId(r["id"], fr[i]["reservation_id"])
                     first == ExtractedReservations[FirstIndex(ExtractedReservations, WithId)]
                 IN /\ \E r \in Range(ExtractedReservations) : WithId(r)
                    /\ fr[i]["voucher_code"] = first["voucher_code"]
                    /\ fr[i]["total_room_price"].n = first["total_room_price"].n
           /\ \A i \in DOMAIN fs :
                 LET ValidWithId(s) == SameId(s["id"], fs[i]["stay_id"]) /\ HasReservation(s)
                     first == ExtractedStays[FirstIndex(ExtractedStays, ValidWithId)]
                 IN /\ \E s \in Range(ExtractedStays) : ValidWithId(s)
                    /\ StayIn(<<fs[i]>>, first, "stay_id")

\* a finished fact run over two reservations with one id and different
\* voucher codes, both stays referencing it: four joined rows, one row loaded
C2_Witness ==
    /\ job = "fact" /\ result = "finished"
    /\ Len(ExtractedReservations) = 2
    /\ ExtractedReservations[1]["id"] = ExtractedReservations[2]["id"]
    /\ ExtractedReservations[1]["voucher_code"] # ExtractedReservations[2]["voucher_code"]
    /\ Len(frames["reservations_df"].rows) = 4
    /\ Len(dwh["fact_reservations"]) = 1
    /\ Len(ExtractedStays) = 2 /\ Len(dwh["fact_stays"]) = 1

-----------------------------------------------------------------------------
(* Properties of the jobs' control flow and of the loads *)

SomeExtractionFailed == \E v \in DOMAIN frames : frames[v] = None

\* C3: in the dimension job and in the fact job, while the four tables are
\* being extracted nothing is written to the warehouse and no extracted batch
\* is transformed; once one extraction has failed the job can only finish
\* extracting and then end, aborted, with no load attempted.
C3_ExtractionFailureAborts ==
    [][(job \in {"dims", "fact"} /\ pc = "extract") =>
          /\ dwh' = dwh
          /\ \A v \in DOMAIN frames : frames'[v] = frames[v]
          /\ SomeExtractionFailed' =>
                /\ pc' \in {"extract", "idle"}
                /\ pc' = "idle" => (result' = "aborted" /\ Loads(log') = <<>>)]_vars

\* a fact run aborted because the last extraction (Users) failed, over a
\* warehouse that an earlier run had filled
C3_Witness ==
    /\ job = "fact" /\ result = "aborted" /\ pc = "idle"
    /\ frames["users_df"] = None
    /\ frames["reservations_df"].ok /\ frames["stays_df"].ok /\ frames["rooms_df"].ok
    /\ dwh["dim_reservations"] # <<>>

IsPrefix(a, b) == Len(a) <= Len(b) /\ SubSeq(b, 1, Len(a)) = a

\* this step is a successful load of table t
LoadedNow(t) ==
    /\ Len(log') = Len(log) + 1
    /\ log'[Len(log')] = [msg |-> "loaded", table |-> t]

\* the batch a load step hands to to_sql for table t
Batch(t) ==
    CASE t \in DimTables ->
           frames[DimsLoadOrder[CHOOSE i \in DOMAIN DimsLoadOrder :
                                    DimsLoadOrder[i][2] = t][1]].rows
      [] t \in FactTables -> frames[t].rows
      [] t = "marketing_mart" ->
           marketing_mart(frames'["marketing.reservations"],
                          frames'["marketing.campaigns"]).rows
      [] t = "finance_mart" ->
           finance_mart(frames'["finance.reservations"], frames'["finance.payments"]).rows
      [] OTHER ->
           hotel_branch_mart(frames'["hotel_branch.stays"],
                             frames'["hotel_branch.rooms"]).rows

\* C4: a successful load of a dimension or mart table leaves exactly the
\* batch in the table; a successful load of a fact table leaves the old rows
\* followed by the batch; no step removes or changes a row of a fact table.
C4_ReplaceAndAppend ==
    [][\A t \in WarehouseTables :
          /\ t \in FactTables => IsPrefix(dwh[t], dwh'[t])
          /\ LoadedNow(t) =>
                dwh'[t] = IF t \in FactTables THEN dwh[t] \o Batch(t) ELSE Batch(t)]_vars

\* a second fact run has appended its batch behind the rows of the first,
\* and a dimension table holds the batch of the last dimension load
C4_Witness ==
    /\ job = "fact" /\ result = "finished"
    /\ frames["fact_reservations"].rows # <<>>
    /\ Len(dwh["fact_reservations"]) > Len(frames["fact_reservations"].rows)
    /\ dwh["fact_stays"] # <<>>

IsSuffix(a, b) == Len(a) <= Len(b) /\ SubSeq(b, Len(b) - Len(a) + 1, Len(b)) = a

\* C5: in the dimension job and in the fact job the loads are attempted in
\* order; a job that has attempted one load attempts them all before it
\* ends, whatever their outcomes; every failure is reported; and a table
\* whose load succeeded holds its batch (a fact table: ends with its batch).
C5_LoadFailureDoesNotStop ==
    job \in {"dims", "fact"} =>
        LET order == IF job = "dims" THEN DimsLoadOrder ELSE FactLoadOrder
            loads == Loads(log)
        IN /\ Len(loads) <= Len(order)
           /\ \A k \in DOMAIN loads : loads[k].table = order[k][2]
           /\ (loads # <<>> /\ Len(loads) < Len(order)) => (pc = "load" /\ result = "running")
           /\ (loads # <<>> /\ pc = "idle") => result = "finished"
           /\ \A k \in DOMAIN loads :
                 loads[k].msg = "loaded" =>
                     IF job = "dims"
                     THEN dwh[order[k][2]] = frames[order[k][1]].rows
                     ELSE IsSuffix(frames[order[k][1]].rows, dwh[order[k][2]])

\* a finished dimension run whose first load failed and whose other three
\* loads succeeded
C5_Witness ==
    /\ job = "dims" /\ result = "finished"
    /\ [k \in DOMAIN Loads(log) |-> Loads(log)[k].msg]
          = <<"load_error", "loaded", "loaded", "loaded">>
    /\ dwh["dim_stays"] = frames["stays_df"].rows
    /\ dwh["dim_stays"] # <<>>

MartSteps ==
    << [mart |-> "marketing", a |-> "reservations", b |-> "campaigns",
        table |-> "marketing_mart"],
       [mart |-> "finance", a |-> "reservations", b |-> "payments",
        table |-> "finance_mart"],
       [mart |-> "hotel_branch", a |-> "stays", b |-> "rooms",
        table |-> "hotel_branch_mart"] >>

MartRan(m) == (m.mart \o "." \o m.a) \in DOMAIN frames
MartExtracted(m) == frames[m.mart \o "." \o m.a].ok /\ frames[m.mart \o "." \o m.b].ok
MartLoadAttempted(m) == \E i \in DOMAIN log : IsLoadMessage(log[i]) /\ log[i].table = m.table

\* C6: in the mart job the builders run in the order marketing, finance,
\* hotel-branch; each one attempts its load exactly when its own two
\* extractions succeeded, whatever happened to the others; the job ends only
\* after all three have run.
C6_MartsNonBlocking ==
    job = "mart" =>
        /\ \A k \in DOMAIN MartSteps :
              /\ MartRan(MartSteps[k]) => (MartExtracted(MartSteps[k])
                                              <=> MartLoadAttempted(MartSteps[k]))
              /\ (k > 1 /\ MartRan(MartSteps[k])) => MartRan(MartSteps[k - 1])
              /\ pc = "idle" => MartRan(MartSteps[k])
        /\ pc = "idle" => result = "finished"
        /\ \A i, j \in DOMAIN Loads(log) :
              i < j =>
                 \E a, b \in DOMAIN MartSteps :
                     /\ a < b
                     /\ MartSteps[a].table = Loads(log)[i].table
                     /\ MartSteps[b].table = Loads(log)[j].table

\* a finished mart run in which the Campaign extraction failed, marketing_mart
\* was not written, and the finance and hotel-branch marts were loaded
C6_Witness ==
    /\ job = "mart" /\ result = "finished"
    /\ frames["marketing.campaigns"] = None
    /\ frames["marketing.reservations"].ok
    /\ dwh["marketing_mart"] = <<>>
    /\ [k \in DOMAIN Loads(log) |-> Loads(log)[k]]
          = <<[msg |-> "loaded", table |-> "finance_mart"],
              [msg |-> "loaded", table |-> "hotel_branch_mart"]>>
    /\ dwh["finance_mart"] # <<>> /\ dwh["hotel_branch_mart"] # <<>>

-----------------------------------------------------------------------------
(* Properties of the marketing mart *)

MarketingLoaded ==
    /\ job = "mart"
    /\ \E i \in DOMAIN log : log[i] = [msg |-> "loaded", table |-> "marketing_mart"]

\* the voucher code and the campaign id have the same string form
VoucherNames(r, c) == ToStr(r["voucher_code"]) = ToStr(c["id"])

MartRowIs(row, r, name, description) ==
    /\ row["reservation_id"] = r["id"]
    /\ row["total_room_price"] = r["total_room_price"]
    /\ row["campaign_name"] = name
    /\ row["campaign_description"] = description

\* C7: in the loaded marketing mart every extracted reservation has a row;
\* for every campaign whose id has the string form of the reservation's
\* voucher code there is a row with that campaign's name and description; a
\* reservation that no campaign matches has a row with both campaign fields
\* null; and the mart holds no other rows.  In particular the text voucher
\* "5" joins the numeric campaign id 5.
C7_MarketingLeftJoin ==
    MarketingLoaded =>
        LET rows == dwh["marketing_mart"]
            R == Range(frames["marketing.reservations"].rows)
            C == Range(frames["marketing.campaigns"].rows)
        IN /\ \A r \in R : \E i \in DOMAIN rows : rows[i]["reservation_id"] = r["id"]
           /\ \A r \in R, c \in C :
                 VoucherNames(r, c) =>
                     \E i \in DOMAIN rows : MartRowIs(rows[i], r, c["name"], c["description"])
           /\ \A r \in R :
                 (\A c \in C : ~VoucherNames(r, c)) =>
                     \E i \in DOMAIN rows : MartRowIs(rows[i], r, Null, Null)
           /\ \A i \in DOMAIN rows :
                 \E r \in R :
                     \/ /\ \A c \in C : ~VoucherNames(r, c)
                        /\ MartRowIs(rows[i], r, Null, Null)
                     \/ \E c \in C : /\ VoucherNames(r, c)
                                     /\ MartRowIs(rows[i], r, c["name"], c["description"])
           /\ \A r \in R, c \in C :
                 (r["voucher_code"] = StrV(<<"5">>) /\ c["id"] = IntV(5)) =>
                     \E i \in DOMAIN rows : MartRowIs(rows[i], r, c["name"], c["description"])

\* a loaded mart where the text voucher "5" took the name of the numeric
\* campaign 5 and the reservation with voucher "9" kept null campaign fields
C7_Witness ==
    /\ MarketingLoaded
    /\ frames["marketing.campaigns"].rows = <<CampaignRow(IntV(5), <<"a">>)>>
    /\ \E i, j \in DOMAIN dwh["marketing_mart"] :
          /\ MartRowIs(dwh["marketing_mart"][i], ReservationRow(1, StrV(<<"5">>)),
                       StrV(<<"a">>), StrV(<<"a", "!">>))
          /\ MartRowIs(dwh["marketing_mart"][j], ReservationRow(2, StrV(<<"9">>)),
                       Null, Null)

-----------------------------------------------------------------------------
(* Properties of the phone-number normalisation *)

\* what the normalisation is to return for the raw value x
ExpectedPhone(x) ==
    IF x = Null \/ x.s = <<>> \/ x.s[1] = "+" THEN x ELSE StrV(<<"+", "6", "2">> \o x.s)

RawPhone == source["Users"].rows[1]["phone_number"]
CurrentPhone == frames["users_df"].rows[1]["phone_number"]

\* C8: after one application by either job the phone number is '+62' followed
\* by the raw value when the raw value is present, non-empty and does not
\* start with '+', and the raw value otherwise; further applications by
\* either job leave it as it is.
C8_PhoneNormalization ==
    pc = "phone" =>
        /\ runs = MaxApply => CurrentPhone = RawPhone
        /\ runs < MaxApply => CurrentPhone = ExpectedPhone(RawPhone)
        /\ (RawPhone = Null \/ RawPhone.s = <<>> \/ RawPhone.s[1] = "+")
              => CurrentPhone = RawPhone

\* the raw number "8" after an application by each job
C8_Witness ==
    /\ pc = "phone"
    /\ RawPhone = StrV(<<"8">>)
    /\ CurrentPhone = StrV(<<"+", "6", "2", "8">>)
    /\ Len(log) >= 2
    /\ \E i, j \in DOMAIN log : log[i].table = "dim_guests" /\ log[j].table = "fact"

-----------------------------------------------------------------------------
(* Properties of the dimension job *)

DimSource(t) ==
    CASE t = "dim_reservations" -> "Reservations"
      [] t = "dim_stays" -> "Stays"
      [] t = "dim_rooms" -> "Rooms"
      [] OTHER -> "Users"

DimKey(t) ==
    CASE t = "dim_reservations" -> "reservation_id"
      [] t = "dim_stays" -> "stay_id"
      [] t = "dim_rooms" -> "room_id"
      [] OTHER -> "guest_id"

DimLoaded(t) ==
    /\ job = "dims"
    /\ \E i \in DOMAIN log : log[i] = [msg |-> "loaded", table |-> t]

KeysRenamed(t, row, src) ==
    /\ "id" \notin DOMAIN row
    /\ row[DimKey(t)] = src["id"]
    /\ t = "dim_stays" =>
          /\ "reference_reservation_id" \notin DOMAIN row
          /\ row["reservation_id"] = src["reference_reservation_id"]

\* C9 as claimed: every row a dimension load writes has current_flag true,
\* end_date null and effective_date equal to the date of the load, whatever
\* columns the source table has, and its id under the dimension key.
C9_AsClaimed ==
    [][\A t \in DimTables :
          LoadedNow(t) =>
              \A i \in DOMAIN dwh'[t] :
                  /\ Bookkeeping \subseteq DOMAIN dwh'[t][i]
                  /\ dwh'[t][i]["current_flag"] = BoolV(TRUE)
                  /\ dwh'[t][i]["end_date"] = Null
                  /\ dwh'[t][i]["effective_date"] = DateV(today)
                  /\ KeysRenamed(t, dwh'[t][i], source[DimSource(t)].rows[i])]_vars

\* the rows of a loaded dimension table against the source rows
C9_LoadedRows ==
    \A t \in DimTables :
        DimLoaded(t) =>
            LET src == source[DimSource(t)]
            IN /\ Len(dwh[t]) = Len(src.rows)
               /\ \A i \in DOMAIN dwh[t] :
                     /\ Bookkeeping \subseteq DOMAIN dwh[t][i]
                     /\ KeysRenamed(t, dwh[t][i], src.rows[i])
                     /\ dwh[t][i]["current_flag"] =
                           IF "current_flag" \in src.cols
                           THEN src.rows[i]["current_flag"] ELSE BoolV(TRUE)
                     /\ dwh[t][i]["end_date"] =
                           IF "end_date" \in src.cols THEN src.rows[i]["end_date"] ELSE Null
                     /\ "effective_date" \in src.cols =>
                           dwh[t][i]["effective_date"] = src.rows[i]["effective_date"]
                     /\ "effective_date" \notin src.cols =>
                           \E d \in 0..today : dwh[t][i]["effective_date"] = DateV(d)

\* the preparation step stamps the date at which it runs
C9_PrepareStep ==
    (job = "dims" /\ pc = "prepare" /\ pc' = "load") =>
        \A v \in DOMAIN frames :
            /\ Bookkeeping \subseteq frames'[v].cols
            /\ "effective_date" \notin frames[v].cols =>
                  \A i \in DOMAIN frames'[v].rows :
                      frames'[v].rows[i]["effective_date"] = DateV(today)

\* the load step writes the batch as prepared
C9_LoadStep == \A t \in DimTables : LoadedNow(t) => dwh'[t] = Batch(t)

\* C9 (amended): every row the dimension job loads carries the three
\* bookkeeping columns and its id under the dimension key; a bookkeeping
\* column the source table does not have is current_flag true, end_date
\* null, effective_date the date at which the job prepared the batch; a
\* column of that name that the source table has keeps the source's values.
C9_Bookkeeping ==
    /\ []C9_LoadedRows
    /\ [][C9_PrepareStep /\ C9_LoadStep]_vars

\* a finished dimension run that crossed midnight between preparation and
\* load: dim_reservations kept the source's current_flag (false), dim_stays
\* got the defaults, stamped with the day before the load
C9_Witness ==
    /\ job = "dims" /\ result = "finished"
    /\ DimLoaded("dim_reservations") /\ DimLoaded("dim_stays")
    /\ dwh["dim_reservations"] # <<>>
    /\ "current_flag" \in source["Reservations"].cols
    /\ dwh["dim_reservations"][1]["current_flag"] = BoolV(FALSE)
    /\ dwh["dim_stays"][1]["current_flag"] = BoolV(TRUE)
    /\ dwh["dim_stays"][1]["end_date"] = Null
    /\ dwh["dim_stays"][1]["effective_date"] = DateV(0)
    /\ today = 1

\* C10: a batch that lacks the column a field transform works on is passed
\* through unchanged and the job goes on to its loads: a run whose four
\* extractions succeeded is never ended by an exception.
C10_MissingColumnTolerated ==
    (job \in {"dims", "fact"} /\ DOMAIN frames # {} /\ ~SomeExtractionFailed)
        => result # "crashed"

====
